---- MODULE Spec2Model ----
(***************************************************************************)
(* The clients resource of the contact service: the route handlers of      *)
(* src/routes/clients.py over the repository of src/repository/clients.py  *)
(* and the clients table of src/database/models.py.                        *)
(***************************************************************************)
EXTENDS Integers, Sequences, FiniteSets, TLC

VARIABLES
    clients,    \* the clients table: a set of rows
    nextId,     \* the next value of the primary-key sequence of clients.id
    now,        \* the clock read by func.now() and by the rate limiter, in seconds
    limiter,    \* the rate limiter's key per caller: [count, expire]
    window,     \* history: per caller, the list calls of the caller's current 5-second window
    last,       \* the last request handled and its response
    session     \* per concurrent update request: its position, payload and loaded row

vars == <<clients, nextId, now, limiter, window, last, session>>

(***************************** bounds **************************************)
MaxClients == 2
MaxTime == 1
MaxClientsAll == 1
MaxCallsAll == 2
MaxClientsThrottle == 1
MaxTimeThrottle == 6
MaxCalls == 4
MaxClientsBirthday == 3
MaxClientsConc == 1

(***************************** data ****************************************)
\* class Role(enum.Enum)
Roles == {"admin", "moderator", "user"}

\* the role sets of the four RoleAccess dependencies
allowed_operation_get == {"admin", "moderator", "user"}
allowed_operation_create == {"admin", "moderator", "user"}
allowed_operation_update_open == {"admin", "moderator", "user"}
allowed_operation_update == {"admin", "moderator"}
allowed_operation_remove == {"admin"}

\* RoleAccess(allowed_roles).__call__: the request passes when the caller's
\* role is one of the allowed roles, and is answered 403 otherwise.
RoleAccess(allowed_roles, role) == role \in allowed_roles

\* RateLimiter(times=2, seconds=5)
times_three == 2 + 1
times == 2
seconds == 5

\* the six columns a ClientModel payload carries
MutableFields == {"first_name", "last_name", "email", "mobile", "birthday", "add_info"}

None == [none |-> TRUE]

Date(y, m, d) == [year |-> y, month |-> m, day |-> d]

ClientModel(fn, ln, em, mo, bd, ai) ==
    [first_name |-> fn, last_name |-> ln, email |-> em, mobile |-> mo,
     birthday |-> bd, add_info |-> ai]

\* Client(**body.dict()) once inserted: the payload's six columns, the key
\* and the two timestamps.
Client(id, body, created, updated) ==
    [id |-> id, first_name |-> body.first_name, last_name |-> body.last_name,
     email |-> body.email, mobile |-> body.mobile, birthday |-> body.birthday,
     add_info |-> body.add_info, created_at |-> created, updated_at |-> updated]

\* the six payload columns of a row
Payload(row) == [f \in MutableFields |-> row[f]]

(***************************** inputs **************************************)
B1 == ClientModel("Ann", "Lee", "a@x.io", "111", Date(1990, 1, 5), "n1")
B2 == ClientModel("Bob", "Ray", "b@x.io", "222", Date(1985, 2, 9), "n2")
B3 == ClientModel("Bob", "Lee", "a@x.io", "111", Date(1990, 1, 5), "n1")
B4 == ClientModel("Ann", "Lee", "a@x.io", "111", Date(1990, 1, 5), "n2")

Bodies == {B1, B2, B3, B4}
Ids == 0 .. MaxClients

(***************************** the table **********************************)
\* email = Column(String, unique=True, index=True): a row with this email
\* other than row id exists.
UniqueViolationOff(tbl, id, email) == FALSE
UniqueViolation(tbl, id, email) == \E r \in tbl : r.id # id /\ r.email = email

\* created_at default func.now(); updated_at default func.now(): both are
\* read in the one INSERT statement.
InsertDefaults(t) == [created_at |-> t, updated_at |-> t]

get_clients(tbl) == tbl

get_client_by_id(client_id, tbl) ==
    IF \E r \in tbl : r.id = client_id
    THEN CHOOSE r \in tbl : r.id = client_id
    ELSE None

get_client_by_email_none(email, tbl) == None
get_client_by_email(email, tbl) ==
    IF \E r \in tbl : r.email = email
    THEN CHOOSE r \in tbl : r.email = email
    ELSE None

\* create: db.add(client); db.commit(); db.refresh(client). The INSERT takes the
\* next sequence value and fails on the unique index (IntegrityError).
create_drop_info(body, tbl, id, t) ==
    LET row == [Client(id, body, t, t) EXCEPT !.add_info = ""]
    IN  [ok |-> TRUE, tbl |-> tbl \cup {row}, client |-> row]
create(body, tbl, id, t) ==
    IF UniqueViolation(tbl, id, body.email)
    THEN [ok |-> FALSE, tbl |-> tbl, client |-> None]
    ELSE LET d == InsertDefaults(t)
             row == Client(id, body, d.created_at, d.updated_at)
         IN  [ok |-> TRUE, tbl |-> tbl \cup {row}, client |-> row]

\* The attributes the session holds as modified at commit: an attribute set to
\* the value it was loaded with has no net change.
ChangedFields(loaded, body) == {f \in MutableFields : body[f] # loaded[f]}

\* db.commit() of update: the flush emits UPDATE clients SET <changed columns>,
\* updated_at = now() WHERE id = loaded.id, and no statement when nothing changed.
\* It fails when the unique index is violated or no row matches.
commit_touch_created(loaded, body, tbl, t) ==
    LET changed == ChangedFields(loaded, body)
        cur == get_client_by_id(loaded.id, tbl)
        new == [f \in DOMAIN loaded |->
                   IF f \in changed THEN body[f]
                   ELSE IF f \in {"updated_at", "created_at"} THEN t ELSE cur[f]]
    IN  IF changed = {} THEN [ok |-> TRUE, tbl |-> tbl]
        ELSE IF cur = None THEN [ok |-> FALSE, tbl |-> tbl]
        ELSE IF "email" \in changed /\ UniqueViolation(tbl, loaded.id, body.email)
        THEN [ok |-> FALSE, tbl |-> tbl]
        ELSE [ok |-> TRUE, tbl |-> (tbl \ {cur}) \cup {new}]
commit(loaded, body, tbl, t) ==
    LET changed == ChangedFields(loaded, body)
        cur == get_client_by_id(loaded.id, tbl)
        new == [f \in DOMAIN loaded |->
                   IF f \in changed THEN body[f]
                   ELSE IF f = "updated_at" THEN t ELSE cur[f]]
    IN  IF changed = {} THEN [ok |-> TRUE, tbl |-> tbl]
        ELSE IF cur = None THEN [ok |-> FALSE, tbl |-> tbl]
        ELSE IF "email" \in changed /\ UniqueViolation(tbl, loaded.id, body.email)
        THEN [ok |-> FALSE, tbl |-> tbl]
        ELSE [ok |-> TRUE, tbl |-> (tbl \ {cur}) \cup {new}]

\* update: read the row, assign the six columns, commit; the returned object
\* is reloaded from the table after the commit.
assign_skip_add_info(client, body) ==
    [f \in MutableFields |-> IF f = "add_info" THEN client[f] ELSE body[f]]
assign(client, body) == [f \in MutableFields |-> body[f]]

update_upsert(client_id, body, tbl, t) ==
    LET client == get_client_by_id(client_id, tbl)
    IN  IF client = None
        THEN [ok |-> TRUE, tbl |-> tbl \cup {Client(client_id, body, t, t)},
              client |-> Client(client_id, body, t, t)]
        ELSE LET c == commit(client, assign(client, body), tbl, t)
             IN  [ok |-> c.ok, tbl |-> c.tbl, client |-> get_client_by_id(client_id, c.tbl)]
update(client_id, body, tbl, t) ==
    LET client == get_client_by_id(client_id, tbl)
    IN  IF client = None
        THEN [ok |-> TRUE, tbl |-> tbl, client |-> None]
        ELSE LET c == commit(client, assign(client, body), tbl, t)
             IN  [ok |-> c.ok, tbl |-> c.tbl, client |-> get_client_by_id(client_id, c.tbl)]

\* remove: read the row, db.delete(client), db.commit(); returns the row read.
remove_keep(client_id, tbl) ==
    LET client == get_client_by_id(client_id, tbl)
    IN  [tbl |-> tbl, client |-> client]
remove(client_id, tbl) ==
    LET client == get_client_by_id(client_id, tbl)
    IN  IF client = None
        THEN [tbl |-> tbl, client |-> None]
        ELSE [tbl |-> tbl \ {client}, client |-> client]

\* the filter of get_clients_by_birth_date
birthday_true_range(tbl, start_date, end_date) ==
    {c \in tbl :
        /\ \/ c.birthday.month > start_date.month
           \/ c.birthday.month = start_date.month /\ c.birthday.day >= start_date.day
        /\ \/ c.birthday.month < end_date.month
           \/ c.birthday.month = end_date.month /\ c.birthday.day <= end_date.day}
birthday_filter(tbl, start_date, end_date) ==
    {c \in tbl :
        /\ c.birthday.day >= start_date.day
        /\ c.birthday.month >= start_date.month
        /\ c.birthday.day <= end_date.day
        /\ c.birthday.month <= end_date.month}

(***************************** responses ***********************************)
\* the request handled and its response
Response(op, caller, role, id, body, status, result, results) ==
    [op |-> op, caller |-> caller, role |-> role, id |-> id, body |-> body,
     status |-> status, result |-> result, results |-> results]

NoCaller == "-"
Callers == {"10.0.0.1", "10.0.0.2"}

\* the limiter's key of a caller in the key store: absent, or a count that
\* expires
NoKey == [count |-> 0, expire |-> 0]

\* RateLimiter.__call__: the key's count is read (an expired key reads 0); a
\* count that would pass times refuses the request, a count below it is
\* incremented, and an absent key is set to 1 with a life of seconds.
RateLimiter(key, t) ==
    LET current == IF t < key.expire THEN key.count ELSE 0
    IN  IF current > 0
        THEN IF current + 1 > times
             THEN [allowed |-> FALSE, key |-> key]
             ELSE [allowed |-> TRUE, key |-> [key EXCEPT !.count = current + 1]]
        ELSE [allowed |-> TRUE, key |-> [count |-> 1, expire |-> t + seconds]]

\* history of the list calls: a caller's window opens with the first call made
\* when none is open and lasts 5 seconds
NoWindow == [start |-> 0 - 1, log |-> << >>]
WindowOpen(w, t) == w.log # << >> /\ t < w.start + 5
Logged(w, t, status) ==
    IF WindowOpen(w, t)
    THEN [w EXCEPT !.log = Append(@, status)]
    ELSE [start |-> t, log |-> <<status>>]

\* the concurrent update requests, each with a database session of its own
Procs == {1, 2}
Idle == [pc |-> "idle", id |-> 0, body |-> None, client |-> None, status |-> 0]

Init ==
    /\ clients = {}
    /\ nextId = 1
    /\ now = 0
    /\ limiter = [c \in Callers |-> NoKey]
    /\ window = [c \in Callers |-> NoWindow]
    /\ last = Response("none", NoCaller, "admin", 0, None, 0, None, {})
    /\ session = [p \in Procs |-> Idle]

(***************************** handlers ************************************)
\* GET /clients/
get_clients_route(caller, role, maxCalls) ==
    /\ Len(window[caller].log) < maxCalls
    /\ IF ~RoleAccess(allowed_operation_get, role)
       THEN /\ last' = Response("list", caller, role, 0, None, 403, None, {})
            /\ window' = [window EXCEPT ![caller] = Logged(@, now, 403)]
            /\ UNCHANGED limiter
       ELSE LET r == RateLimiter(limiter[caller], now)
            IN  /\ limiter' = [limiter EXCEPT ![caller] = r.key]
                /\ window' = [window EXCEPT
                                 ![caller] = Logged(@, now, IF r.allowed THEN 200 ELSE 429)]
                /\ last' = IF r.allowed
                           THEN Response("list", caller, role, 0, None, 200, None,
                                         get_clients(clients))
                           ELSE Response("list", caller, role, 0, None, 429, None, {})
    /\ UNCHANGED <<clients, nextId, now, session>>

\* GET /clients/birthday
get_clients_by_birth_date(role, start_date, end_date) ==
    /\ IF ~RoleAccess(allowed_operation_get, role)
       THEN last' = Response("birthday", NoCaller, role, 0,
                             [start_date |-> start_date, end_date |-> end_date],
                             403, None, {})
       ELSE last' = Response("birthday", NoCaller, role, 0,
                             [start_date |-> start_date, end_date |-> end_date],
                             200, None, birthday_filter(clients, start_date, end_date))
    /\ UNCHANGED <<clients, nextId, now, limiter, window, session>>

\* GET /clients/{client_id}
get_client(role, client_id) ==
    /\ IF ~RoleAccess(allowed_operation_get, role)
       THEN last' = Response("get", NoCaller, role, client_id, None, 403, None, {})
       ELSE IF client_id < 1
       THEN last' = Response("get", NoCaller, role, client_id, None, 422, None, {})
       ELSE LET client == get_client_by_id(client_id, clients)
            IN  last' = Response("get", NoCaller, role, client_id, None,
                                 IF client = None THEN 404 ELSE 200, client, {})
    /\ UNCHANGED <<clients, nextId, now, limiter, window, session>>

\* POST /clients/
create_client(role, body, cap) ==
    IF ~RoleAccess(allowed_operation_create, role)
    THEN /\ last' = Response("create", NoCaller, role, 0, body, 403, None, {})
         /\ UNCHANGED <<clients, nextId, now, limiter, window, session>>
    ELSE IF get_client_by_email(body.email, clients) # None
    THEN /\ last' = Response("create", NoCaller, role, 0, body, 409, None, {})
         /\ UNCHANGED <<clients, nextId, now, limiter, window, session>>
    ELSE /\ nextId <= cap
         /\ LET r == create(body, clients, nextId, now)
            IN  /\ clients' = r.tbl
                /\ last' = Response("create", NoCaller, role, 0, body,
                                    IF r.ok THEN 201 ELSE 500, r.client, {})
         /\ nextId' = nextId + 1
         /\ UNCHANGED <<now, limiter, window, session>>

\* PUT /clients/{client_id}
update_client(role, client_id, body) ==
    /\ IF ~RoleAccess(allowed_operation_update, role)
       THEN /\ last' = Response("update", NoCaller, role, client_id, body, 403, None, {})
            /\ UNCHANGED clients
       ELSE IF client_id < 1
       THEN /\ last' = Response("update", NoCaller, role, client_id, body, 422, None, {})
            /\ UNCHANGED clients
       ELSE LET r == update(client_id, body, clients, now)
            IN  /\ clients' = r.tbl
                /\ last' = Response("update", NoCaller, role, client_id, body,
                                    IF ~r.ok THEN 500
                                    ELSE IF r.client = None THEN 404 ELSE 200,
                                    IF r.ok THEN r.client ELSE None, {})
    /\ UNCHANGED <<nextId, now, limiter, window, session>>

\* DELETE /clients/{client_id}
remove_client(role, client_id) ==
    /\ IF ~RoleAccess(allowed_operation_remove, role)
       THEN /\ last' = Response("delete", NoCaller, role, client_id, None, 403, None, {})
            /\ UNCHANGED clients
       ELSE IF client_id < 1
       THEN /\ last' = Response("delete", NoCaller, role, client_id, None, 422, None, {})
            /\ UNCHANGED clients
       ELSE LET r == remove(client_id, clients)
            IN  /\ clients' = r.tbl
                /\ last' = Response("delete", NoCaller, role, client_id, None,
                                    IF r.client = None THEN 404 ELSE 204, r.client, {})
    /\ UNCHANGED <<nextId, now, limiter, window, session>>

\* the clock advances; keys of the limiter whose life is over expire
Tick(maxT) ==
    /\ now < maxT
    /\ now' = now + 1
    /\ limiter' = [c \in Callers |->
                     IF now' < limiter[c].expire THEN limiter[c] ELSE NoKey]
    /\ window' = [c \in Callers |->
                    IF WindowOpen(window[c], now') THEN window[c] ELSE NoWindow]
    /\ UNCHANGED <<clients, nextId, last, session>>

Next ==
    \/ \E role \in Roles, id \in Ids : get_client(role, id)
    \/ \E role \in Roles, body \in Bodies : create_client(role, body, MaxClients)
    \/ \E role \in Roles, id \in Ids, body \in Bodies : update_client(role, id, body)
    \/ \E role \in Roles, id \in Ids : remove_client(role, id)
    \/ Tick(MaxTime)

Spec == Init /\ [][Next]_vars

\* all six operations by callers of every role
BodiesAll == {B1, B2}
IdsAll == 0 .. MaxClientsAll
DatesAll == {Date(2020, 1, 1), Date(2020, 1, 8)}

NextAll ==
    \/ \E caller \in Callers, role \in Roles : get_clients_route(caller, role, MaxCallsAll)
    \/ \E role \in Roles, d1 \in DatesAll, d2 \in DatesAll :
          get_clients_by_birth_date(role, d1, d2)
    \/ \E role \in Roles, id \in IdsAll : get_client(role, id)
    \/ \E role \in Roles, body \in BodiesAll : create_client(role, body, MaxClientsAll)
    \/ \E role \in Roles, id \in IdsAll, body \in BodiesAll : update_client(role, id, body)
    \/ \E role \in Roles, id \in IdsAll : remove_client(role, id)

SpecAll == Init /\ [][NextAll]_vars

\* all six operations by an admin from two addresses, with time enough for
\* the limiter's window to roll over
RolesThrottle == {"admin"}
BodiesThrottle == {B1}
IdsThrottle == 1 .. MaxClientsThrottle

NextThrottle ==
    \/ \E caller \in Callers, role \in RolesThrottle :
          get_clients_route(caller, role, MaxCalls)
    \/ \E role \in RolesThrottle, d1 \in DatesAll, d2 \in DatesAll :
          get_clients_by_birth_date(role, d1, d2)
    \/ \E role \in RolesThrottle, id \in IdsThrottle : get_client(role, id)
    \/ \E role \in RolesThrottle, body \in BodiesThrottle :
          create_client(role, body, MaxClientsThrottle)
    \/ \E role \in RolesThrottle, id \in IdsThrottle, body \in BodiesThrottle :
          update_client(role, id, body)
    \/ \E role \in RolesThrottle, id \in IdsThrottle : remove_client(role, id)
    \/ Tick(MaxTimeThrottle)

SpecThrottle == Init /\ [][NextThrottle]_vars

\* the birthday query over stores of clients born on assorted days
X1 == ClientModel("Ann", "Lee", "a@x.io", "111", Date(1990, 1, 5), "n1")
X2 == ClientModel("Bob", "Ray", "b@x.io", "222", Date(1985, 1, 9), "n2")
X3 == ClientModel("Cat", "Fox", "c@x.io", "333", Date(2001, 2, 5), "n3")
X4 == ClientModel("Dan", "Kay", "d@x.io", "444", Date(1999, 12, 31), "n4")
X5 == ClientModel("Eve", "Moe", "e@x.io", "555", Date(1970, 1, 8), "n5")

BodiesBirthday == {X1, X2, X3, X4, X5}
IdsBirthday == 1 .. MaxClientsBirthday
DatesBirthday ==
    {Date(2020, 1, 1), Date(2020, 1, 8), Date(2020, 2, 10), Date(2020, 12, 25),
     Date(2021, 1, 2)}

NextBirthday ==
    \/ \E d1 \in DatesBirthday, d2 \in DatesBirthday :
          get_clients_by_birth_date("admin", d1, d2)
    \/ \E body \in BodiesBirthday : create_client("admin", body, MaxClientsBirthday)
    \/ \E id \in IdsBirthday : remove_client("admin", id)

SpecBirthday == Init /\ [][NextBirthday]_vars

\* PUT /clients/{client_id} step by step, for requests that run concurrently.
\* The request passes the role check and the path validation.
update_begin(p, role, client_id, body) ==
    /\ session[p].pc = "idle"
    /\ RoleAccess(allowed_operation_update, role)
    /\ client_id >= 1
    /\ session' = [session EXCEPT ![p] = [pc |-> "begun", id |-> client_id, body |-> body,
                                          client |-> None, status |-> 0]]
    /\ UNCHANGED <<clients, nextId, now, limiter, window, last>>

\* client = await get_client_by_id(client_id, db); a missing row ends the
\* request with 404
update_read(p) ==
    /\ session[p].pc = "begun"
    /\ LET client == get_client_by_id(session[p].id, clients)
       IN  IF client = None
           THEN /\ session' = [session EXCEPT ![p].pc = "done", ![p].status = 404]
                /\ last' = Response("update", NoCaller, "admin", session[p].id,
                                    session[p].body, 404, None, {})
           ELSE /\ session' = [session EXCEPT ![p].pc = "read", ![p].client = client]
                /\ UNCHANGED last
    /\ UNCHANGED <<clients, nextId, now, limiter, window>>

\* the six assignments client.<column> = body.<column>, on the session's object
update_assign(p) ==
    /\ session[p].pc = "read"
    /\ session' = [session EXCEPT ![p].pc = "assigned"]
    /\ UNCHANGED <<clients, nextId, now, limiter, window, last>>

\* db.commit()
update_commit(p) ==
    /\ session[p].pc = "assigned"
    /\ LET c == commit(session[p].client, assign(session[p].client, session[p].body),
                       clients, now)
       IN  /\ clients' = c.tbl
           /\ session' = [session EXCEPT ![p].pc = "done",
                                         ![p].status = IF c.ok THEN 200 ELSE 500]
           /\ last' = Response("update", NoCaller, "admin", session[p].id, session[p].body,
                               IF c.ok THEN 200 ELSE 500,
                               IF c.ok THEN get_client_by_id(session[p].id, c.tbl) ELSE None,
                               {})
    /\ UNCHANGED <<nextId, now, limiter, window>>

\* two update requests over a store of one client
BodiesConc == {B2, B3, B4}
IdsConc == 1 .. MaxClientsConc

NextConc ==
    \/ \E body \in {B1} : create_client("admin", body, MaxClientsConc)
    \/ \E p \in Procs, id \in IdsConc, body \in BodiesConc :
          update_begin(p, "admin", id, body)
    \/ \E p \in Procs : update_read(p)
    \/ \E p \in Procs : update_assign(p)
    \/ \E p \in Procs : update_commit(p)

SpecConc == Init /\ [][NextConc]_vars

(***************************** claims **************************************)
\* a step in which a handler answered a request
Handled == last' # last

Stored(id) == \E r \in clients : r.id = id
StoredAfter(id) == \E r \in clients' : r.id = id
Row(id) == CHOOSE r \in clients : r.id = id
RowAfter(id) == CHOOSE r \in clients' : r.id = id
EmailStored(email) == \E r \in clients : r.email = email

\* C2: POST /clients/ with a payload whose email is the email of a stored
\* client is answered 409 Conflict, and the call adds or changes no record.
C2_DuplicateEmailConflict ==
    [][(Handled /\ last'.op = "create" /\ EmailStored(last'.body.email))
          => (last'.status = 409 /\ clients' = clients /\ nextId' = nextId)]_vars

\* a create was refused for the email of a stored client that differs from
\* the payload in another column
C2_Witness ==
    /\ last.op = "create"
    /\ last.status = 409
    /\ \E r \in clients : r.email = last.body.email /\ Payload(r) # last.body

\* C3 as stated: creating a client whose email is that of a stored client
\* succeeds, the two records coexisting in the table.
C3_DuplicateEmailAccepted ==
    [][(Handled /\ last'.op = "create" /\ EmailStored(last'.body.email))
          => /\ last'.status = 201
             /\ \E r1, r2 \in clients' : r1 # r2 /\ r1.email = r2.email]_vars

\* C3 as amended: client email is unique. No two stored client records ever
\* have the same email: create refuses a stored email and the unique index
\* refuses it on every write.
C3_EmailUnique ==
    \A r1, r2 \in clients : r1.email = r2.email => r1 = r2

\* two clients are stored, and a create with the email of one of them was refused
C3_Witness ==
    /\ Cardinality(clients) = 2
    /\ last.op = "create"
    /\ last.status = 409
    /\ EmailStored(last.body.email)

\* C4: a successful create(p) followed by get-by-id on the returned id returns
\* a record whose six payload columns equal p, with an id and two timestamps
\* with updated_at >= created_at.
C4_CreateThenGet ==
    [][(last.op = "create" /\ last.status = 201 /\ Handled
            /\ last'.op = "get" /\ last'.id = last.result.id)
          => /\ last'.status = 200
             /\ Payload(last'.result) = last.body
             /\ last'.result.id = last.result.id
             /\ last'.result.id >= 1
             /\ last'.result.updated_at >= last'.result.created_at]_vars

\* a get-by-id returned the client that was created from payload B2 after the
\* clock had advanced
C4_Witness ==
    /\ last.op = "get"
    /\ last.status = 200
    /\ Payload(last.result) = B2
    /\ last.result.created_at > 0

\* an update request that passed the role check for the id of a stored client
UpdateOfStored ==
    /\ Handled
    /\ last'.op = "update"
    /\ last'.role \in {"admin", "moderator"}
    /\ Stored(last'.id)

\* C5 as stated: update(id, p) on a stored id leaves the six payload columns
\* equal to p and updated_at strictly later than before, whatever p is (the
\* clock having advanced since the row was last written).
C5_UpdateAlwaysAdvances ==
    [][(UpdateOfStored /\ now > Row(last'.id).updated_at)
          => /\ StoredAfter(last'.id)
             /\ Payload(RowAfter(last'.id)) = last'.body
             /\ RowAfter(last'.id).updated_at > Row(last'.id).updated_at]_vars

\* C5 as amended: update(id, p) on a stored id, with p.email not the email of
\* another client, leaves the six payload columns equal to p; when p differs
\* from the stored values updated_at becomes the time of the call, which is not
\* earlier than before, and when p equals them the row, updated_at included,
\* is unchanged. With p.email the email of another client the update fails
\* and changes nothing.
C5_UpdateReplaces ==
    [][UpdateOfStored
          => IF \E r \in clients : r.id # last'.id /\ r.email = last'.body.email
             THEN last'.status = 500 /\ clients' = clients
             ELSE /\ last'.status = 200
                  /\ last'.result = RowAfter(last'.id)
                  /\ Payload(RowAfter(last'.id)) = last'.body
                  /\ RowAfter(last'.id).id = last'.id
                  /\ clients' \ {RowAfter(last'.id)} = clients \ {Row(last'.id)}
                  /\ IF Payload(Row(last'.id)) = last'.body
                     THEN RowAfter(last'.id) = Row(last'.id)
                     ELSE /\ RowAfter(last'.id).updated_at = now
                          /\ RowAfter(last'.id).updated_at >= Row(last'.id).updated_at]_vars

\* an update changed a client after the clock had advanced: updated_at is later
\* than created_at
C5_Witness ==
    /\ last.op = "update"
    /\ last.status = 200
    /\ last.result.updated_at > last.result.created_at

\* C6: update or delete, by a caller whose role is allowed, on an identifier
\* (>= 1) for which no client is stored is answered 404 and leaves the table
\* as it was.
C6_MissingIdNotFound ==
    [][(/\ Handled
        /\ \/ last'.op = "update" /\ last'.role \in {"admin", "moderator"}
           \/ last'.op = "delete" /\ last'.role = "admin"
        /\ last'.id >= 1
        /\ ~Stored(last'.id))
          => (last'.status = 404 /\ clients' = clients)]_vars

\* an update of a missing id was answered 404 while a client is stored
C6_Witness ==
    /\ last.op = "update"
    /\ last.status = 404
    /\ clients # {}

\* C7: delete, by an admin, on the id of a stored client returns the record
\* found and removes that record and no other; an id once deleted is never
\* stored again, so every later get-by-id on it is answered 404.
C7_DeleteRemoves ==
    [][/\ (Handled /\ last'.op = "delete" /\ last'.role = "admin" /\ Stored(last'.id))
          => /\ last'.status = 204
             /\ last'.result = Row(last'.id)
             /\ clients' = clients \ {Row(last'.id)}
       /\ \A id \in 1 .. nextId - 1 : ~Stored(id) => ~StoredAfter(id)
       /\ (Handled /\ last'.op = "get" /\ last'.id \in 1 .. nextId - 1 /\ ~Stored(last'.id))
          => last'.status = 404]_vars

\* a get-by-id of a deleted client was answered 404 while another client is
\* stored
C7_Witness ==
    /\ last.op = "get"
    /\ last.status = 404
    /\ last.id \in 1 .. nextId - 1
    /\ clients # {}

\* the roles the policy allows per operation
AllowedByPolicy(op) ==
    CASE op = "update" -> {"admin", "moderator"}
      [] op = "delete" -> {"admin"}
      [] OTHER -> {"admin", "moderator", "user"}

\* C1: an operation (list, birthday, get, create, update, delete) invoked with
\* a role outside the operation's allowed set (update: admin, moderator;
\* delete: admin; the others: all three) is answered 403 Forbidden and the
\* stored client records are the same before and after the call.
C1_ForbiddenNoMutation ==
    [][(/\ Handled
        /\ last'.op \in {"list", "birthday", "get", "create", "update", "delete"}
        /\ last'.role \notin AllowedByPolicy(last'.op))
          => (last'.status = 403 /\ clients' = clients /\ nextId' = nextId)]_vars

\* an update by a caller of role user was answered 403 while a client is stored
C1_Witness ==
    /\ last.op = "update"
    /\ last.role = "user"
    /\ last.status = 403
    /\ last.id = 1
    /\ \E r \in clients : r.id = 1 /\ Payload(r) # last.body

\* C9: of a caller's list calls within one 5-second window the first two are
\* answered 200 and every later one 429, until the window rolls over; a
\* throttled call returns no record and leaves the table alone, and no
\* operation other than list is throttled.
C9_ListThrottled ==
    [][/\ \A c \in Callers : \A i \in 1 .. Len(window'[c].log) :
             window'[c].log[i] = IF i <= 2 THEN 200 ELSE 429
       /\ last'.status = 429
             => (last'.op = "list" /\ last'.results = {} /\ clients' = clients)]_vars

\* a caller's second window, opened after the first rolled over, has seen two
\* calls answered and a third throttled, a client being stored
C9_Witness ==
    /\ last.op = "list"
    /\ last.status = 429
    /\ clients # {}
    /\ \E c \in Callers :
          /\ c = last.caller
          /\ window[c].start >= 5
          /\ window[c].log = <<200, 200, 429>>

C10_LastWriterWins ==
    (/\ \A p \in Procs : session[p].pc = "done" /\ session[p].status = 200
     /\ \A p, q \in Procs : session[p].id = session[q].id)
        => \A r \in clients : r.id = last.id => Payload(r) = last.body

\* C11: in every state reached by create, update and delete no two stored
\* client records have the same id, and an update changes neither the id nor
\* created_at of a record: the ids stored are the same before and after it,
\* and a record keeps its created_at for as long as it is stored.
C11_IdUniqueImmutable ==
    [][/\ \A r1, r2 \in clients' : r1.id = r2.id => r1 = r2
       /\ \A r \in clients' : r.id \in 1 .. nextId' - 1
       /\ (Handled /\ last'.op = "update")
             => {r.id : r \in clients'} = {r.id : r \in clients}
       /\ \A r \in clients : StoredAfter(r.id) => RowAfter(r.id).created_at = r.created_at]_vars

\* two clients are stored and an update has changed one of them after the
\* clock had advanced
C11_Witness ==
    /\ Cardinality(clients) = 2
    /\ last.op = "update"
    /\ last.status = 200
    /\ last.result \in clients
    /\ last.result.updated_at > last.result.created_at

====
